---------------------------- MODULE Spec2Model ----------------------------
(***************************************************************************)
(* Model of the entropy encoders of pycompress:                            *)
(*   src/entropy_encoders/arithmetic_coding.py  (encode / decode)          *)
(*   src/entropy_encoders/huffman_coding.py     (encode / decode)          *)
(*                                                                         *)
(* The arithmetic codec computes with decimal.Decimal under the ambient    *)
(* context precision.  A Decimal is modelled by what it is: a coefficient  *)
(* of decimal digits and an exponent, rounded ROUND_HALF_EVEN to `prec`    *)
(* significant digits after every operation.  Coefficients are digit       *)
(* sequences (least significant digit first) so that no machine width      *)
(* limits them.                                                            *)
(***************************************************************************)
EXTENDS Integers, Sequences, FiniteSets, TLC

(***************************************************************************)
(* Naturals of unbounded size (the coefficient of a Decimal is a Python    *)
(* int): digit sequences, least significant digit first, without zeros at  *)
(* the most significant end; zero is <<>>.  Operations that carry from one *)
(* digit to the next work on a range lo..hi of places, halved at each      *)
(* level, and hand the carry from the lower half to the upper half.        *)
(***************************************************************************)
Max2(a, b) == IF a >= b THEN a ELSE b
Min2(a, b) == IF a <= b THEN a ELSE b

\* the digit of a at place i, zero beyond its length
NDigit(a, i) == IF i <= Len(a) THEN a[i] ELSE 0

NStrip(a) ==
    LET nz == {i \in 1..Len(a) : a[i] # 0}
    IN  IF nz = {} THEN <<>>
        ELSE SubSeq(a, 1, CHOOSE i \in nz : \A j \in nz : j <= i)

RECURSIVE NFromInt(_)
NFromInt(n) == IF n = 0 THEN <<>> ELSE <<n % 10>> \o NFromInt(n \div 10)

NZeros(k) == [i \in 1..k |-> 0]

\* a * 10^k
NShift(a, k) == IF a = <<>> THEN <<>> ELSE NZeros(k) \o a

\* -1, 0, 1 as a < b, a = b, a > b
NCmp(a, b) ==
    IF Len(a) < Len(b) THEN -1
    ELSE IF Len(a) > Len(b) THEN 1
    ELSE IF a = b THEN 0
    ELSE LET top == CHOOSE i \in 1..Len(a) :
                       a[i] # b[i] /\ \A j \in (i + 1)..Len(a) : a[j] = b[j]
         IN  IF a[top] < b[top] THEN -1 ELSE 1

RECURSIVE NAddRange(_, _, _, _, _)
NAddRange(a, b, lo, hi, carry) ==
    IF hi < lo THEN [d |-> <<>>, c |-> carry]
    ELSE IF hi = lo
    THEN LET s == NDigit(a, lo) + NDigit(b, lo) + carry
         IN  [d |-> <<s % 10>>, c |-> s \div 10]
    ELSE LET mid   == (lo + hi) \div 2
             lower == NAddRange(a, b, lo, mid, carry)
             upper == NAddRange(a, b, mid + 1, hi, lower.c)
         IN  [d |-> lower.d \o upper.d, c |-> upper.c]

NAdd(a, b) ==
    IF a = <<>> THEN b
    ELSE IF b = <<>> THEN a
    ELSE LET r == NAddRange(a, b, 1, Max2(Len(a), Len(b)), 0)
         IN  IF r.c = 0 THEN r.d ELSE r.d \o <<r.c>>

RECURSIVE NSubRange(_, _, _, _, _)
NSubRange(a, b, lo, hi, borrow) ==
    IF hi < lo THEN [d |-> <<>>, c |-> borrow]
    ELSE IF hi = lo
    THEN LET s == NDigit(a, lo) - NDigit(b, lo) - borrow
         IN  [d |-> <<(s + 10) % 10>>, c |-> IF s < 0 THEN 1 ELSE 0]
    ELSE LET mid   == (lo + hi) \div 2
             lower == NSubRange(a, b, lo, mid, borrow)
             upper == NSubRange(a, b, mid + 1, hi, lower.c)
         IN  [d |-> lower.d \o upper.d, c |-> upper.c]

\* a - b for a >= b
NSub(a, b) ==
    IF b = <<>> THEN a ELSE NStrip(NSubRange(a, b, 1, Len(a), 0).d)

RECURSIVE NMulDigitRange(_, _, _, _, _)
NMulDigitRange(a, m, lo, hi, carry) ==
    IF hi < lo THEN [d |-> <<>>, c |-> carry]
    ELSE IF hi = lo
    THEN LET s == a[lo] * m + carry
         IN  [d |-> <<s % 10>>, c |-> s \div 10]
    ELSE LET mid   == (lo + hi) \div 2
             lower == NMulDigitRange(a, m, lo, mid, carry)
             upper == NMulDigitRange(a, m, mid + 1, hi, lower.c)
         IN  [d |-> lower.d \o upper.d, c |-> upper.c]

\* a * m for a digit m
NMulDigit(a, m) ==
    IF m = 0 \/ a = <<>> THEN <<>>
    ELSE LET r == NMulDigitRange(a, m, 1, Len(a), 0)
         IN  IF r.c = 0 THEN r.d ELSE r.d \o <<r.c>>

\* a times the number written by the digits b[lo..hi]
RECURSIVE NMulRange(_, _, _, _)
NMulRange(a, b, lo, hi) ==
    IF hi < lo THEN <<>>
    ELSE IF hi = lo THEN NMulDigit(a, b[lo])
    ELSE LET mid == (lo + hi) \div 2
         IN  NAdd(NMulRange(a, b, lo, mid),
                  NShift(NMulRange(a, b, mid + 1, hi), mid - lo + 1))

NMul(a, b) ==
    IF a = <<>> \/ b = <<>> THEN <<>> ELSE NMulRange(a, b, 1, Len(b))

\* the number of times b fits in r, for r < 10 * b
NFit(r, b) ==
    IF NCmp(r, b) < 0 THEN 0
    ELSE CHOOSE d \in 1..9 :
        /\ NCmp(NMulDigit(b, d), r) <= 0
        /\ d < 9 => NCmp(NMulDigit(b, d + 1), r) > 0

\* long division of the digits a[hi], ..., a[lo] (most significant first)
\* under the running remainder rem: the quotient digits for the places
\* hi down to lo, most significant first, and the remainder left
RECURSIVE NDivRange(_, _, _, _, _)
NDivRange(a, b, hi, lo, rem) ==
    IF hi < lo THEN [q |-> <<>>, r |-> rem]
    ELSE IF hi = lo
    THEN LET r1 == NStrip(<<a[hi]>> \o rem)
             d  == NFit(r1, b)
         IN  [q |-> <<d>>, r |-> NSub(r1, NMulDigit(b, d))]
    ELSE LET mid   == (hi + lo + 1) \div 2
             upper == NDivRange(a, b, hi, mid, rem)
             lower == NDivRange(a, b, mid - 1, lo, upper.r)
         IN  [q |-> upper.q \o lower.q, r |-> lower.r]

\* most significant digit first <-> least significant digit first
NReverse(a) == [i \in 1..Len(a) |-> a[Len(a) + 1 - i]]

\* divmod(a, b) for b > 0
NDivMod(a, b) ==
    IF a = <<>> THEN [q |-> <<>>, r |-> <<>>]
    ELSE LET qr == NDivRange(a, b, Len(a), 1, <<>>)
         IN  [q |-> NStrip(NReverse(qr.q)), r |-> qr.r]

NAllZero(a) == \A i \in 1..Len(a) : a[i] = 0

(***************************************************************************)
(* decimal.Decimal: the value c * 10^(-e), c a digit sequence.  The field  *)
(* x is the context's Inexact signal carried with the value: TRUE when a   *)
(* rounding on the way to this value discarded a non-zero digit.           *)
(***************************************************************************)
Dec(c, e, x) == [c |-> c, e |-> e, x |-> x]

\* Decimal(0), Decimal("1")
DZero == Dec(<<>>, 0, FALSE)
DOne  == Dec(<<1>>, 0, FALSE)

\* Decimal(n) for a Python int n >= 0: exact whatever the precision
DFromInt(n) == Dec(NFromInt(n), 0, FALSE)

\* ROUND_HALF_EVEN when the n least significant digits of c are dropped:
\* TRUE when the kept digits are incremented
RoundsUp(c, n) ==
    LET d        == IF n >= 1 /\ n <= Len(c) THEN c[n] ELSE 0
        restzero == NAllZero(SubSeq(c, 1, Min2(n - 1, Len(c))))
        keptodd  == n < Len(c) /\ c[n + 1] % 2 = 1
    IN  d > 5 \/ (d = 5 /\ ~restzero) \/ (d = 5 /\ restzero /\ keptodd)

\* c with its n least significant digits dropped, rounded half-even
RoundDrop(c, n) ==
    LET kept == IF n >= Len(c) THEN <<>> ELSE SubSeq(c, n + 1, Len(c))
    IN  IF RoundsUp(c, n) THEN NAdd(kept, <<1>>) ELSE kept

\* Decimal._fix: round to the context precision
DFix(c, e, x, prec) ==
    LET n == Len(c) - prec
    IN  IF n <= 0 THEN Dec(c, e, x)
        ELSE LET r     == RoundDrop(c, n)
                 lossy == ~NAllZero(SubSeq(c, 1, n))
             IN  IF Len(r) > prec
                 THEN Dec(Tail(r), e - n - 1, x \/ lossy)
                 ELSE Dec(r, e - n, x \/ lossy)

DCmp(a, b) ==
    LET m == Max2(a.e, b.e)
    IN  NCmp(NShift(a.c, m - a.e), NShift(b.c, m - b.e))

DLt(a, b) == DCmp(a, b) < 0
DLe(a, b) == DCmp(a, b) <= 0
DEq(a, b) == DCmp(a, b) = 0

\* a + b under the context precision
DAdd(a, b, prec) ==
    LET m == Max2(a.e, b.e)
    IN  DFix(NAdd(NShift(a.c, m - a.e), NShift(b.c, m - b.e)), m,
             a.x \/ b.x, prec)

\* a - b under the context precision, for a >= b
DSub(a, b, prec) ==
    LET m == Max2(a.e, b.e)
    IN  DFix(NSub(NShift(a.c, m - a.e), NShift(b.c, m - b.e)), m,
             a.x \/ b.x, prec)

\* abs(a - b): half-even rounding is symmetric in the sign
DAbsSub(a, b, prec) == IF DLe(b, a) THEN DSub(a, b, prec) ELSE DSub(b, a, prec)

\* a * b under the context precision
DMul(a, b, prec) == DFix(NMul(a.c, b.c), a.e + b.e, a.x \/ b.x, prec)

\* an exact quotient is shortened toward the ideal exponent: zeros at the
\* end of q are dropped while the exponent e exceeds ideal
DivStrip(q, e, ideal) ==
    LET drop == CHOOSE k \in 0..Len(q) :
                   /\ k <= e - ideal \/ k = 0
                   /\ \A i \in 1..k : q[i] = 0
                   /\ k < Len(q) /\ k < e - ideal => q[k + 1] # 0
    IN  [c |-> SubSeq(q, drop + 1, Len(q)), e |-> e - drop]

\* a / b under the context precision, b # 0 (Decimal.__truediv__: the
\* quotient to prec + 1 digits, a remainder made visible to the rounding)
DDiv(a, b, prec) ==
    IF a.c = <<>> THEN Dec(<<>>, a.e - b.e, a.x \/ b.x)
    ELSE LET shift == Len(b.c) - Len(a.c) + prec + 1
             qr    == IF shift >= 0
                      THEN NDivMod(NShift(a.c, shift), b.c)
                      ELSE NDivMod(a.c, NShift(b.c, 0 - shift))
             e     == a.e - b.e + shift
             q     == IF qr.r # <<>>
                      THEN [c |-> IF qr.q = <<>> \/ qr.q[1] % 5 = 0
                                  THEN NAdd(qr.q, <<1>>) ELSE qr.q,
                            e |-> e]
                      ELSE DivStrip(qr.q, e, a.e - b.e)
         IN  DFix(q.c, q.e, a.x \/ b.x, prec)

\* a.quantize(Decimal 10^-k): TRUE when it raises InvalidOperation because
\* the result needs more digits than the precision
DQuantizeRaises(a, k, prec) ==
    /\ a.c # <<>>
    /\ \/ Len(a.c) - a.e + k > prec
       \/ /\ k < a.e
          /\ Len(RoundDrop(a.c, a.e - k)) > prec

\* a.quantize(Decimal 10^-k): a rounded half-even to k decimal places
DQuantize(a, k) ==
    IF k >= a.e THEN Dec(NShift(a.c, k - a.e), k, a.x)
    ELSE Dec(RoundDrop(a.c, a.e - k), k, a.x)

(***************************************************************************)
(* str(Decimal) and Decimal(str), on sequences of one-character strings.   *)
(***************************************************************************)
DigitChars == <<"0", "1", "2", "3", "4", "5", "6", "7", "8", "9">>

IsDigitChar(ch) == \E d \in 1..10 : DigitChars[d] = ch

CharDigit(ch) == (CHOOSE d \in 1..10 : DigitChars[d] = ch) - 1

RECURSIVE DigitsToChars(_)
DigitsToChars(ds) ==
    IF ds = <<>> THEN <<>> ELSE <<DigitChars[Head(ds) + 1]>> \o DigitsToChars(Tail(ds))

RECURSIVE CharsToDigits(_)
CharsToDigits(cs) ==
    IF cs = <<>> THEN <<>> ELSE <<CharDigit(Head(cs))>> \o CharsToDigits(Tail(cs))

RECURSIVE ZeroChars(_)
ZeroChars(k) == IF k <= 0 THEN <<>> ELSE <<"0">> \o ZeroChars(k - 1)

\* the decimal digits of a Python int n >= 0, as str(n)
IntChars(n) == IF n = 0 THEN <<"0">> ELSE DigitsToChars(NReverse(NFromInt(n)))

\* Decimal.__str__ of a non-negative finite Decimal: plain notation, or
\* scientific notation when the exponent is positive or the value has more
\* than six leading zeros after the point
DStr(a) ==
    LET int        == IF a.c = <<>> THEN <<"0">> ELSE DigitsToChars(NReverse(a.c))
        exp        == 0 - a.e
        leftdigits == exp + Len(int)
        dotplace   == IF exp <= 0 /\ leftdigits > -6 THEN leftdigits ELSE 1
        intpart    == IF dotplace <= 0 THEN <<"0">>
                      ELSE IF dotplace >= Len(int)
                           THEN int \o ZeroChars(dotplace - Len(int))
                           ELSE SubSeq(int, 1, dotplace)
        fracpart   == IF dotplace <= 0
                      THEN <<".">> \o ZeroChars(0 - dotplace) \o int
                      ELSE IF dotplace >= Len(int) THEN <<>>
                           ELSE <<".">> \o SubSeq(int, dotplace + 1, Len(int))
        d          == leftdigits - dotplace
        exppart    == IF d = 0 THEN <<>>
                      ELSE IF d > 0 THEN <<"E", "+">> \o IntChars(d)
                           ELSE <<"E", "-">> \o IntChars(0 - d)
    IN  intpart \o fracpart \o exppart

AllDigitChars(cs) == \A i \in 1..Len(cs) : IsDigitChar(cs[i])

\* the place of the exponent marker in cs, 0 when there is none
EPlace(cs) ==
    IF \E i \in 1..Len(cs) : cs[i] \in {"E", "e"}
    THEN CHOOSE i \in 1..Len(cs) :
            cs[i] \in {"E", "e"} /\ \A j \in 1..(i - 1) : cs[j] \notin {"E", "e"}
    ELSE 0

RECURSIVE CharsToInt(_)
CharsToInt(cs) ==
    IF cs = <<>> THEN 0
    ELSE 10 * CharsToInt(SubSeq(cs, 1, Len(cs) - 1)) + CharDigit(cs[Len(cs)])

\* Decimal("0." + cs) is accepted: digits, then optionally E, a sign and digits
FractionParses(cs) ==
    LET p    == EPlace(cs)
        mant == IF p = 0 THEN cs ELSE SubSeq(cs, 1, p - 1)
        ex   == IF p = 0 THEN <<>> ELSE SubSeq(cs, p + 1, Len(cs))
        exd  == IF ex # <<>> /\ ex[1] \in {"+", "-"} THEN Tail(ex) ELSE ex
    IN  /\ AllDigitChars(mant)
        /\ p # 0 => (exd # <<>> /\ AllDigitChars(exd))

\* Decimal("0." + cs): exact, whatever the context precision
ParseFraction(cs) ==
    LET p    == EPlace(cs)
        mant == IF p = 0 THEN cs ELSE SubSeq(cs, 1, p - 1)
        ex   == IF p = 0 THEN <<>> ELSE SubSeq(cs, p + 1, Len(cs))
        neg  == ex # <<>> /\ ex[1] = "-"
        exd  == IF ex # <<>> /\ ex[1] \in {"+", "-"} THEN Tail(ex) ELSE ex
        n    == CharsToInt(exd)
    IN  Dec(NStrip(NReverse(CharsToDigits(mant))),
            Len(mant) + (IF neg THEN n ELSE 0 - n), FALSE)

(***************************************************************************)
(* Bounds of the model and the inputs the calls are drawn from.            *)
(***************************************************************************)
\* longest symbol list passed to encode
MaxLen == 3

\* finest granularity 10^-MaxJump the model follows __minimize_entropy to;
\* the search in the code is unbounded
MaxJump == 9

\* most symbols the model follows the decode loop for; the loop in the code
\* is unbounded
MaxOut == MaxLen + 2

Symbols == {"R", "G", "B"}

EndMarkers == {"B"}

\* the precision arguments of encode and decode
Precisions == {2, 4, 12}

RECURSIVE SeqsUpTo(_)
SeqsUpTo(n) ==
    IF n = 0 THEN {<<>>}
    ELSE LET shorter == SeqsUpTo(n - 1)
         IN  shorter \cup {Append(q, y) : q \in {z \in shorter : Len(z) = n - 1},
                                          y \in Symbols}

SymbolLists == SeqsUpTo(MaxLen)

\* a table entry symbol: Decimal(str(v)) with v written as c * 10^(-e)
Entry(sym, c, e) == [sym |-> sym, p |-> Dec(c, e, FALSE)]

\* the probability_table arguments: ordered dicts of symbol -> float
TableHandwritten == <<Entry("R", <<4>>, 1), Entry("G", <<5>>, 1), Entry("B", <<1>>, 1)>>
TableRare        == <<Entry("R", <<1>>, 3), Entry("B", <<9, 9, 9>>, 3)>>
TableOver        == <<Entry("R", <<5, 1>>, 2), Entry("B", <<5>>, 2),
                      Entry("G", <<1, 0, 0, 0, 0, 8>>, 6)>>
TableEdge        == <<Entry("R", <<5>>, 1), Entry("B", <<1, 0, 0, 0, 5>>, 5)>>
TableBadSum      == <<Entry("R", <<5>>, 1), Entry("B", <<6>>, 1)>>
TableNoMarker    == <<Entry("R", <<5>>, 1), Entry("G", <<5>>, 1)>>
TableZero        == <<Entry("R", <<>>, 1), Entry("B", <<0, 1>>, 1)>>
TableCoarse      == <<Entry("R", <<5>>, 1), Entry("B", <<4, 0, 5>>, 3)>>

SuppliedTables ==
    {TableHandwritten, TableRare, TableOver, TableEdge, TableBadSum,
     TableNoMarker, TableZero, TableCoarse}

\* probability_table = None, or a supplied table
TableArgs ==
    {[given |-> FALSE, t |-> <<>>]} \cup {[given |-> TRUE, t |-> t] : t \in SuppliedTables}

(***************************************************************************)
(* arithmetic_coding.py: the helpers of encode and decode.                 *)
(***************************************************************************)
TableSymbols(table) == {table[n].sym : n \in 1..Len(table)}

\* probability_table[symbol]
Lookup(table, sym) == table[CHOOSE n \in 1..Len(table) : table[n].sym = sym].p

\* the keys of Counter(symbol_list), in order of first occurrence
RECURSIVE FirstOccurrences(_)
FirstOccurrences(list) ==
    IF list = <<>> THEN <<>>
    ELSE LET front == FirstOccurrences(SubSeq(list, 1, Len(list) - 1))
             last  == list[Len(list)]
         IN  IF \E n \in 1..Len(front) : front[n] = last THEN front
             ELSE Append(front, last)

Count(list, sym) == Cardinality({n \in 1..Len(list) : list[n] = sym})

\* __create_probability_table: Decimal(freq) / N under the context
create_probability_table(list, p) ==
    LET keys == FirstOccurrences(list)
    IN  [n \in 1..Len(keys) |->
            [sym |-> keys[n],
             p   |-> DDiv(DFromInt(Count(list, keys[n])), DFromInt(Len(list)), p)]]

\* sum(probability_table.values()): 0 + v1 + v2 + ... under the context
RECURSIVE SumValues(_, _, _)
SumValues(table, n, p) ==
    IF n = 0 THEN DZero
    ELSE DAdd(SumValues(table, n - 1, p), table[n].p, p)

\* prev after n entries of __init_range_table (also decode's range_lower)
RECURSIVE Cumulative(_, _, _)
Cumulative(table, n, p) ==
    IF n = 0 THEN DZero
    ELSE DAdd(Cumulative(table, n - 1, p), table[n].p, p)

init_range_table(table, p) ==
    [sym \in TableSymbols(table) |->
        LET n == CHOOSE m \in 1..Len(table) : table[m].sym = sym
        IN  <<Cumulative(table, n - 1, p), Cumulative(table, n, p)>>]

\* prev after n entries of the loop of __update_range_table
RECURSIVE Rescaled(_, _, _, _, _)
Rescaled(table, n, low, width, p) ==
    IF n = 0 THEN low
    ELSE DAdd(Rescaled(table, n - 1, low, width, p), DMul(table[n].p, width, p), p)

update_range_table(table, low, high, p) ==
    LET width == DSub(high, low, p)
    IN  [sym \in TableSymbols(table) |->
            LET n == CHOOSE m \in 1..Len(table) : table[m].sym = sym
            IN  <<Rescaled(table, n - 1, low, width, p),
                  Rescaled(table, n, low, width, p)>>]

\* jump = Decimal("0.1") divided k - 1 times by Decimal(10)
Jump(k) == Dec(<<1>>, k, FALSE)

\* a scan that tries the rounded lower bound alone, never start + jump
ScanOnce(start, low, high, k, p) ==
    IF DLe(low, start) /\ DLt(start, high) THEN [found |-> TRUE, at |-> start]
    ELSE [found |-> FALSE, at |-> start]

\* the inner while loop of __minimize_entropy at one granularity
RECURSIVE Scan(_, _, _, _, _)
Scan(start, low, high, k, p) ==
    IF ~DLt(start, high) THEN [found |-> FALSE, at |-> start]
    ELSE IF DLe(low, start) /\ DLt(start, high) THEN [found |-> TRUE, at |-> start]
    ELSE Scan(DAdd(start, Jump(k), p), low, high, k, p)

\* bisect.bisect_left in place of bisect.bisect_right
RECURSIVE BisectLeft(_, _, _, _)
BisectLeft(a, x, lo, hi) ==
    IF lo >= hi THEN lo
    ELSE LET mid == (lo + hi) \div 2
         IN  IF DLt(a[mid + 1], x) THEN BisectLeft(a, x, mid + 1, hi)
             ELSE BisectLeft(a, x, lo, mid)

\* bisect.bisect_right(a, x), indices counted from 0 as in the code
RECURSIVE BisectRight(_, _, _, _)
BisectRight(a, x, lo, hi) ==
    IF lo >= hi THEN lo
    ELSE LET mid == (lo + hi) \div 2
         IN  IF DLt(x, a[mid + 1]) THEN BisectRight(a, x, lo, mid)
             ELSE BisectRight(a, x, mid + 1, hi)

\* a[v] for a Python list index v, where -1 is the last element
PyIndex(a, v) == IF v < 0 THEN Len(a) + v + 1 ELSE v + 1

\* decode's loop body: the place in the table of the symbol that owns f
DecodeIndex(bounds, f) == PyIndex(bounds, BisectRight(bounds, f, 0, Len(bounds)) - 1)

\* decode's loop body: fraction -= range_lower[v]; fraction /= probability
Renormalised(f, bound, probability, p) == DDiv(DSub(f, bound, p), probability, p)

Tainted(table) == \E n \in 1..Len(table) : table[n].p.x

(***************************************************************************)
(* The state of one encode call followed by one decode call.               *)
(***************************************************************************)
VARIABLES
    pc,                 \* where the program is
    raised,             \* the exception that ended the call, or "none"
    prec,               \* decimal.getcontext().prec
    symbol_list,        \* encode's arguments
    end_of_sequence,
    precision,
    table_arg,
    probability_table,  \* the table in use, then the artifact's table
    range_table,
    pos,                \* symbols of symbol_list consumed by the loop
    parent,             \* lower, upper read from range_table[symbol]
    lower,
    upper,
    jump,               \* __minimize_entropy: jump is 10^-jump
    start,              \* the value __minimize_entropy returned
    digits,             \* the artifact's decimal string
    fraction,           \* decode's locals
    range_lower,
    output,
    symbol,
    calls,              \* results of earlier calls, by the calls' arguments
    h_pc,               \* huffman_coding: where the program is
    h_raised,
    h_symbol_list,      \* huffman_coding.encode's argument
    frequency_table,
    huffman_tree,       \* the heap of __construct_tree
    mx_count,
    lookup_table,       \* the artifact: lookup_table and bit_string
    bit_string,
    bit_pos,            \* bits of bit_string consumed by decode's loop
    prefix,
    h_output

arithVars == <<pc, raised, prec, symbol_list, end_of_sequence, precision, table_arg,
               probability_table, range_table, pos, parent, lower, upper, jump,
               start, digits, fraction, range_lower, output, symbol, calls>>

huffVars == <<h_pc, h_raised, h_symbol_list, frequency_table, huffman_tree,
              mx_count, lookup_table, bit_string, bit_pos, prefix, h_output>>

vars == <<arithVars, huffVars>>

encVars == <<symbol_list, end_of_sequence, precision, table_arg, probability_table,
             range_table, pos, parent, lower, upper, jump, start, digits>>

decVars == <<fraction, range_lower, output, symbol>>

Init ==
    /\ pc = "idle"
    /\ raised = "none"
    /\ prec \in Precisions
    /\ symbol_list = <<>>
    /\ end_of_sequence = "None"
    /\ precision = 0
    /\ table_arg = [given |-> FALSE, t |-> <<>>]
    /\ probability_table = <<>>
    /\ range_table = <<>>
    /\ pos = 0
    /\ parent = <<DZero, DZero>>
    /\ lower = DZero
    /\ upper = DZero
    /\ jump = 0
    /\ start = DZero
    /\ digits = <<>>
    /\ fraction = DZero
    /\ range_lower = <<>>
    /\ output = <<>>
    /\ symbol = "None"
    /\ calls = <<>>
    /\ h_pc = "idle"
    /\ h_raised = "none"
    /\ h_symbol_list = <<>>
    /\ frequency_table = <<>>
    /\ huffman_tree = <<>>
    /\ mx_count = 0
    /\ lookup_table = <<>>
    /\ bit_string = <<>>
    /\ bit_pos = 0
    /\ prefix = <<>>
    /\ h_output = <<>>

InList(sym, list) == \E n \in 1..Len(list) : list[n] = sym

\* the tolerance Decimal("1e-5") of the check on the sum
Tolerance == Dec(<<1>>, 5, FALSE)

\* the asserts of encode, in the order the code evaluates them
MarkerInList(list, eos) == InList(eos, list)
MarkerInTable(arg, eos) == arg.given => eos \in TableSymbols(arg.t)

TableOf(list, arg, p) ==
    IF arg.given THEN arg.t ELSE create_probability_table(list, p)
\* the check on the sum with <= in place of <
SumAcceptedLoose(table, p) ==
    DLe(DAbsSub(SumValues(table, Len(table), p), DOne, p), Tolerance)

SumAccepted(table, p) ==
    DLt(DAbsSub(SumValues(table, Len(table), p), DOne, p), Tolerance)

\* a context whose precision a call can raise and never lower
SetPrecisionUpward(ambient, p) == IF ambient > p THEN ambient ELSE p

\* decimal.getcontext().prec = precision: the precision in force afterwards
SetPrecision(ambient, p) == p

Raise(exc) ==
    /\ pc' = "raised"
    /\ raised' = exc

\* encode, up to the loop over symbol_list
Encode(list, eos, p, arg) ==
    /\ pc = "idle"
    /\ UNCHANGED huffVars
    /\ symbol_list' = list
    /\ end_of_sequence' = eos
    /\ precision' = p
    /\ table_arg' = arg
    /\ UNCHANGED <<pos, parent, lower, upper, jump, start, digits, calls>>
    /\ UNCHANGED decVars
    /\ IF ~MarkerInList(list, eos)
       THEN /\ Raise("AssertionError")
            /\ UNCHANGED <<prec, probability_table, range_table>>
       ELSE /\ prec' = SetPrecision(prec, p)
            /\ IF ~MarkerInTable(arg, eos)
               THEN /\ Raise("AssertionError")
                    /\ UNCHANGED <<probability_table, range_table>>
               ELSE LET ctx   == SetPrecision(prec, p)
                        table == TableOf(list, arg, ctx)
                    IN  /\ probability_table' = table
                        /\ IF ~SumAccepted(table, ctx)
                           THEN /\ Raise("AssertionError")
                                /\ UNCHANGED range_table
                           ELSE /\ range_table' = init_range_table(table, ctx)
                                /\ pc' = "narrow"
                                /\ UNCHANGED raised

\* one iteration of the loop over symbol_list: __update_range_table
NarrowStep ==
    /\ pc = "narrow"
    /\ UNCHANGED huffVars
    /\ pos < Len(symbol_list)
    /\ UNCHANGED <<prec, symbol_list, end_of_sequence, precision, table_arg,
                   probability_table, start, digits, calls>>
    /\ UNCHANGED decVars
    /\ LET sym == symbol_list[pos + 1]
       IN  IF sym \notin DOMAIN range_table
           THEN /\ Raise("KeyError")
                /\ UNCHANGED <<range_table, pos, parent, lower, upper, jump>>
           ELSE LET low   == range_table[sym][1]
                    high  == range_table[sym][2]
                    width == DSub(high, low, prec)
                IN  /\ parent' = <<low, high>>
                    /\ range_table' = update_range_table(probability_table, low, high, prec)
                    /\ lower' = low
                    /\ upper' = Rescaled(probability_table, Len(probability_table),
                                         low, width, prec)
                    /\ pos' = pos + 1
                    /\ IF pos + 1 = Len(symbol_list)
                       THEN pc' = "minimize" /\ jump' = 1
                       ELSE pc' = "narrow" /\ jump' = jump
                    /\ UNCHANGED raised

\* one granularity of __minimize_entropy; on success encode returns
\* str(start)[2:]
MinimizeStep ==
    /\ pc = "minimize"
    /\ UNCHANGED huffVars
    /\ jump <= MaxJump
    /\ UNCHANGED <<prec, symbol_list, end_of_sequence, precision, table_arg,
                   probability_table, range_table, pos, parent, lower, upper, calls>>
    /\ UNCHANGED decVars
    /\ IF DQuantizeRaises(lower, jump, prec)
       THEN /\ Raise("InvalidOperation")
            /\ UNCHANGED <<jump, start, digits>>
       ELSE LET scan == Scan(DQuantize(lower, jump), lower, upper, jump, prec)
            IN  IF scan.found
                THEN /\ start' = scan.at
                     /\ digits' = SubSeq(DStr(scan.at), 3, Len(DStr(scan.at)))
                     /\ pc' = "encoded"
                     /\ UNCHANGED <<raised, jump>>
                ELSE /\ jump' = jump + 1
                     /\ UNCHANGED <<pc, raised, start, digits>>

\* decode, up to its loop
Decode(p) ==
    /\ pc = "encoded"
    /\ UNCHANGED huffVars
    /\ prec' = SetPrecision(prec, p)
    /\ UNCHANGED encVars
    /\ UNCHANGED calls
    /\ IF ~FractionParses(digits)
       THEN /\ Raise("InvalidOperation")
            /\ UNCHANGED decVars
       ELSE /\ fraction' = ParseFraction(digits)
            /\ range_lower' = [n \in 1..Len(probability_table) |->
                                  Cumulative(probability_table, n - 1, SetPrecision(prec, p))]
            /\ output' = <<>>
            /\ symbol' = "None"
            /\ pc' = "decode"
            /\ UNCHANGED raised

\* one iteration of decode's loop; decode returns when the marker is emitted
DecodeStep ==
    /\ pc = "decode"
    /\ UNCHANGED huffVars
    /\ Len(output) < MaxOut
    /\ UNCHANGED prec
    /\ UNCHANGED encVars
    /\ UNCHANGED <<range_lower, calls>>
    /\ LET n   == DecodeIndex(range_lower, fraction)
           sym == probability_table[n].sym
           p   == Lookup(probability_table, sym)
       IN  /\ symbol' = sym
           /\ output' = Append(output, sym)
           /\ IF p.c = <<>>
              THEN /\ Raise(IF DEq(fraction, range_lower[n])
                            THEN "InvalidOperation" ELSE "DivisionByZero")
                   /\ UNCHANGED fraction
              ELSE /\ fraction' = Renormalised(fraction, range_lower[n], p, prec)
                   /\ pc' = IF sym = end_of_sequence THEN "done" ELSE "decode"
                   /\ UNCHANGED raised

Next ==
    \/ \E list \in SymbolLists, eos \in EndMarkers, p \in Precisions,
          arg \in TableArgs : Encode(list, eos, p, arg)
    \/ NarrowStep
    \/ MinimizeStep
    \/ \E p \in Precisions : Decode(p)
    \/ DecodeStep

Spec == Init /\ [][Next]_vars

(***************************************************************************)
(* Sequences of calls: a call that has returned or raised gives way to the *)
(* next one.  The context precision outlives the call; the caller may keep *)
(* what a call was given and what it gave back.                            *)
(***************************************************************************)
CallLists == {<<"B">>, <<"G", "B">>, <<"G", "G", "B">>, <<"G", "R">>}

CallTables == {[given |-> FALSE, t |-> <<>>], [given |-> TRUE, t |-> TableHandwritten]}

CallPrecisions == {2, 12}

\* the call that has just ended: what it was given and what it gave back
CallRecord ==
    IF pc = "encoded" \/ (pc = "raised" /\ digits = <<>>)
    THEN [kind |-> "encode", list |-> symbol_list, eos |-> end_of_sequence,
          precision |-> precision, table |-> table_arg.t, given |-> table_arg.given,
          digits |-> <<>>,
          raised |-> raised, out_digits |-> digits, out_table |-> probability_table,
          out_list |-> <<>>]
    ELSE [kind |-> "decode", list |-> <<>>, eos |-> end_of_sequence,
          precision |-> prec, table |-> probability_table, given |-> TRUE,
          digits |-> digits,
          raised |-> raised, out_digits |-> <<>>, out_table |-> <<>>,
          out_list |-> output]

\* the call ends; its locals are gone, the context precision stays
Return ==
    /\ pc \in {"encoded", "done", "raised"}
    /\ UNCHANGED huffVars
    /\ UNCHANGED prec
    /\ \/ calls' = calls
       \/ calls = <<>> /\ calls' = <<CallRecord>>
    /\ pc' = "idle"
    /\ raised' = "none"
    /\ symbol_list' = <<>>
    /\ end_of_sequence' = "None"
    /\ precision' = 0
    /\ table_arg' = [given |-> FALSE, t |-> <<>>]
    /\ probability_table' = <<>>
    /\ range_table' = <<>>
    /\ pos' = 0
    /\ parent' = <<DZero, DZero>>
    /\ lower' = DZero
    /\ upper' = DZero
    /\ jump' = 0
    /\ start' = DZero
    /\ digits' = <<>>
    /\ fraction' = DZero
    /\ range_lower' = <<>>
    /\ output' = <<>>
    /\ symbol' = "None"

NextCalls ==
    \/ \E list \in CallLists, eos \in EndMarkers, p \in CallPrecisions,
          arg \in CallTables : Encode(list, eos, p, arg)
    \/ NarrowStep
    \/ MinimizeStep
    \/ \E p \in CallPrecisions : Decode(p)
    \/ DecodeStep
    \/ Return

SpecCalls == Init /\ [][NextCalls]_vars

(***************************************************************************)
(* huffman_coding.py.  A __Node is [freq, item]: item is <<symbol>> for a  *)
(* leaf and <<left, right>> for an internal node; nodes compare by freq.   *)
(* Heap positions count from 0 as in heapq.                                *)
(***************************************************************************)
\* longest symbol list passed to huffman_coding.encode
MaxHuff == 4

HuffSymbols == {"a", "b", "c", "d"}

RECURSIVE HuffSeqs(_)
HuffSeqs(n) ==
    IF n = 0 THEN {<<>>}
    ELSE LET shorter == HuffSeqs(n - 1)
         IN  shorter \cup {Append(q, y) : q \in {z \in shorter : Len(z) = n - 1},
                                          y \in HuffSymbols}

HuffLists == HuffSeqs(MaxHuff)

Node(freq, item) == [freq |-> freq, item |-> item]

\* Counter(symbol_list), keys in order of first occurrence
Counter(list) ==
    LET keys == FirstOccurrences(list)
    IN  [n \in 1..Len(keys) |-> [sym |-> keys[n], freq |-> Count(list, keys[n])]]

RECURSIVE SumFreq(_, _)
SumFreq(table, n) == IF n = 0 THEN 0 ELSE SumFreq(table, n - 1) + table[n].freq

\* heapq._siftdown
RECURSIVE siftdown(_, _, _, _)
siftdown(heap, startpos, position, newitem) ==
    LET parentpos == (position - 1) \div 2
    IN  IF position > startpos /\ newitem.freq < heap[parentpos + 1].freq
        THEN siftdown([heap EXCEPT ![position + 1] = heap[parentpos + 1]],
                      startpos, parentpos, newitem)
        ELSE [heap EXCEPT ![position + 1] = newitem]

\* heapq._siftup: the smaller child is moved up until a leaf is reached,
\* then the item is sifted down into place
RECURSIVE siftup(_, _, _, _)
siftup(heap, startpos, position, newitem) ==
    LET endpos   == Len(heap)
        childpos == 2 * position + 1
        rightpos == childpos + 1
        smaller  == IF rightpos < endpos
                       /\ ~(heap[childpos + 1].freq < heap[rightpos + 1].freq)
                    THEN rightpos ELSE childpos
    IN  IF childpos < endpos
        THEN siftup([heap EXCEPT ![position + 1] = heap[smaller + 1]],
                    startpos, smaller, newitem)
        ELSE siftdown([heap EXCEPT ![position + 1] = newitem], startpos, position, newitem)

\* heapq.heapify: _siftup at n // 2 - 1, ..., 0
RECURSIVE heapifyFrom(_, _)
heapifyFrom(x, i) ==
    IF i < 0 THEN x ELSE heapifyFrom(siftup(x, i, i, x[i + 1]), i - 1)

heapify(x) == heapifyFrom(x, Len(x) \div 2 - 1)

\* heapq.heappop, for a non-empty heap: the item returned and the heap left
heappop(heap) ==
    LET lastelt == heap[Len(heap)]
        rest    == SubSeq(heap, 1, Len(heap) - 1)
    IN  IF rest = <<>> THEN [item |-> lastelt, heap |-> rest]
        ELSE [item |-> rest[1],
              heap |-> siftup([rest EXCEPT ![1] = lastelt], 0, 0, lastelt)]

\* heapq.heappush
heappush(heap, item) == siftdown(Append(heap, item), 0, Len(heap), item)

\* a dfs that extends the code with "0" on both sides
RECURSIVE dfsSameBit(_, _)
dfsSameBit(root, code) ==
    IF Len(root.item) = 1 THEN <<[sym |-> root.item[1], code |-> code]>>
    ELSE dfsSameBit(root.item[1], Append(code, "0"))
         \o dfsSameBit(root.item[2], Append(code, "0"))

\* dfs of __create_lookup_table: the (symbol, code) pairs in the order the
\* dict receives them
RECURSIVE dfs(_, _)
dfs(root, code) ==
    IF Len(root.item) = 1 THEN <<[sym |-> root.item[1], code |-> code]>>
    ELSE dfs(root.item[1], Append(code, "0")) \o dfs(root.item[2], Append(code, "1"))

\* a dict built from pairs: a later pair with the same key replaces the value
DictGet(pairs, key, field, none) ==
    IF \E n \in 1..Len(pairs) : pairs[n][key.name] = key.value
    THEN pairs[CHOOSE n \in 1..Len(pairs) :
                  /\ pairs[n][key.name] = key.value
                  /\ \A m \in (n + 1)..Len(pairs) : pairs[m][key.name] # key.value][field]
    ELSE none

\* "".join(lookup_table[symbol] for symbol in symbol_list)
RECURSIVE JoinCodes(_, _)
JoinCodes(table, list) ==
    IF list = <<>> THEN <<>>
    ELSE DictGet(table, [name |-> "sym", value |-> Head(list)], "code", <<>>)
         \o JoinCodes(table, Tail(list))

HuffRaise(exc) ==
    /\ h_pc' = "raised"
    /\ h_raised' = exc

\* encode, up to the loop of __construct_tree
HuffEncode(list) ==
    /\ h_pc = "idle"
    /\ UNCHANGED arithVars
    /\ h_symbol_list' = list
    /\ frequency_table' = Counter(list)
    /\ UNCHANGED <<lookup_table, bit_string, bit_pos, prefix, h_output>>
    /\ IF Len(Counter(list)) < 2
       THEN /\ HuffRaise("AssertionError")
            /\ UNCHANGED <<huffman_tree, mx_count>>
       ELSE /\ huffman_tree' =
                   heapify([n \in 1..Len(Counter(list)) |->
                               Node(Counter(list)[n].freq, <<Counter(list)[n].sym>>)])
            /\ mx_count' = 0
            /\ h_pc' = "tree"
            /\ UNCHANGED h_raised

\* one iteration of the loop of __construct_tree
TreeStep ==
    /\ h_pc = "tree"
    /\ mx_count # SumFreq(frequency_table, Len(frequency_table))
    /\ UNCHANGED arithVars
    /\ UNCHANGED <<h_symbol_list, frequency_table, lookup_table, bit_string,
                   bit_pos, prefix, h_output>>
    /\ IF Len(huffman_tree) < 2
       THEN /\ HuffRaise("IndexError")
            /\ UNCHANGED <<huffman_tree, mx_count>>
       ELSE LET first    == heappop(huffman_tree)
                second   == heappop(first.heap)
                new_freq == first.item.freq + second.item.freq
            IN  /\ huffman_tree' =
                       heappush(second.heap, Node(new_freq, <<first.item, second.item>>))
                /\ mx_count' = Max2(mx_count, new_freq)
                /\ UNCHANGED <<h_pc, h_raised>>

\* the loop is over: __create_lookup_table, the bit string, encode returns
HuffReturn ==
    /\ h_pc = "tree"
    /\ mx_count = SumFreq(frequency_table, Len(frequency_table))
    /\ UNCHANGED arithVars
    /\ UNCHANGED <<h_raised, h_symbol_list, frequency_table, huffman_tree,
                   mx_count, bit_pos, prefix, h_output>>
    /\ lookup_table' = dfs(huffman_tree[1], <<>>)
    /\ bit_string' = JoinCodes(dfs(huffman_tree[1], <<>>), h_symbol_list)
    /\ h_pc' = "coded"

\* decode, up to its loop
HuffDecode ==
    /\ h_pc = "coded"
    /\ UNCHANGED arithVars
    /\ UNCHANGED <<h_raised, h_symbol_list, frequency_table, huffman_tree,
                   mx_count, lookup_table, bit_string>>
    /\ h_output' = <<>>
    /\ prefix' = <<>>
    /\ bit_pos' = 0
    /\ h_pc' = IF bit_string = <<>> THEN "done" ELSE "bits"

\* one iteration of decode's loop; decode returns after the last bit
HuffDecodeBit ==
    /\ h_pc = "bits"
    /\ bit_pos < Len(bit_string)
    /\ UNCHANGED arithVars
    /\ UNCHANGED <<h_raised, h_symbol_list, frequency_table, huffman_tree,
                   mx_count, lookup_table, bit_string>>
    /\ LET grown == Append(prefix, bit_string[bit_pos + 1])
           found == DictGet(lookup_table, [name |-> "code", value |-> grown],
                            "sym", "None")
       IN  IF found # "None"
           THEN h_output' = Append(h_output, found) /\ prefix' = <<>>
           ELSE h_output' = h_output /\ prefix' = grown
    /\ bit_pos' = bit_pos + 1
    /\ h_pc' = IF bit_pos + 1 = Len(bit_string) THEN "done" ELSE "bits"

NextHuffman ==
    \/ \E list \in HuffLists : HuffEncode(list)
    \/ TreeStep
    \/ HuffReturn
    \/ HuffDecode
    \/ HuffDecodeBit

SpecHuffman == Init /\ [][NextHuffman]_vars

(***************************************************************************)
(* Vocabulary of the properties: exact arithmetic, and the conditions the  *)
(* properties are stated under.                                            *)
(***************************************************************************)
\* a + b, a * b, |a - b| with no rounding
\* digits enough to hold a sum or a product of a and b
Room(a, b) == Len(a.c) + Len(b.c) + Max2(a.e, 0 - a.e) + Max2(b.e, 0 - b.e) + 2
XAdd(a, b) == DAdd(a, b, Room(a, b))
XMul(a, b) == DMul(a, b, Room(a, b))
XAbsSub(a, b) == DAbsSub(a, b, Room(a, b))

RECURSIVE XSum(_, _)
XSum(table, n) == IF n = 0 THEN DZero ELSE XAdd(XSum(table, n - 1), table[n].p)

\* the least multiple of 10^-k that is >= a
CeilTo(a, k) ==
    IF k >= a.e THEN Dec(a.c, a.e, FALSE)
    ELSE LET n    == a.e - k
             kept == IF n >= Len(a.c) THEN <<>> ELSE SubSeq(a.c, n + 1, Len(a.c))
             up   == ~NAllZero(SubSeq(a.c, 1, Min2(n, Len(a.c))))
         IN  Dec(IF up THEN NAdd(kept, <<1>>) ELSE kept, k, FALSE)

\* some multiple of 10^-k lies in [low, high)
HasMultiple(low, high, k) == DLt(CeilTo(low, k), high)

LastIsMarker ==
    /\ symbol_list # <<>>
    /\ symbol_list[Len(symbol_list)] = end_of_sequence

\* the supplied table is valid for symbol_list: it has every symbol of the
\* list, probabilities in (0, 1], and a sum within 1e-5 of 1
ValidTable ==
    /\ table_arg.given
    /\ \A n \in 1..Len(symbol_list) : symbol_list[n] \in TableSymbols(table_arg.t)
    /\ end_of_sequence \in TableSymbols(table_arg.t)
    /\ \A n \in 1..Len(table_arg.t) :
          DLt(DZero, table_arg.t[n].p) /\ DLe(table_arg.t[n].p, DOne)
    /\ DLe(XAbsSub(XSum(table_arg.t, Len(table_arg.t)), DOne), Tolerance)

SumIsOne == DEq(XSum(probability_table, Len(probability_table)), DOne)

\* no rounding so far has discarded a non-zero digit
ExactEncode ==
    /\ ~Tainted(probability_table)
    /\ ~lower.x /\ ~upper.x /\ ~start.x
    /\ \A sym \in DOMAIN range_table : ~range_table[sym][1].x /\ ~range_table[sym][2].x

ExactDecode ==
    /\ ~fraction.x
    /\ \A n \in 1..Len(range_lower) : ~range_lower[n].x

\* encode returned an artifact
EncodeReturned == pc \in {"encoded", "decode", "done"} \/ (pc = "raised" /\ digits # <<>>)

\* the list up to and including the first occurrence of the marker
PrefixToMarker(list, eos) ==
    SubSeq(list, 1, CHOOSE n \in 1..Len(list) :
                       list[n] = eos /\ \A m \in 1..(n - 1) : list[m] # eos)

MarkerOnlyLast ==
    /\ LastIsMarker
    /\ \A n \in 1..(Len(symbol_list) - 1) : symbol_list[n] # end_of_sequence

\* decode ran at a precision no smaller than encode's and has rounded nothing
SufficientPrecision == ExactEncode /\ ExactDecode /\ prec >= precision

\* the next iteration of decode's loop emits a symbol other than the marker
\* and leaves the fraction as it is: the loop repeats this state for ever
Cycling ==
    /\ pc = "decode"
    /\ LET n == DecodeIndex(range_lower, fraction)
       IN  /\ probability_table[n].sym # end_of_sequence
           /\ probability_table[n].p.c # <<>>
           /\ Renormalised(fraction, range_lower[n], probability_table[n].p, prec)
                 = fraction

(***************************************************************************)
(* C1.  Round trip of the arithmetic codec, for a list whose only marker   *)
(* is its last element and a valid supplied table whose probabilities sum  *)
(* to exactly 1, with exact arithmetic: once encode has returned, decode   *)
(* returns, and returns the list.                                          *)
(***************************************************************************)
C1_RoundTrip ==
    (/\ MarkerOnlyLast /\ ValidTable /\ SumIsOne /\ SufficientPrecision
     /\ EncodeReturned /\ pc \in {"done", "raised"})
    => (pc = "done" /\ output = symbol_list)

(***************************************************************************)
(* C2.  Minimality of the encoded fraction: with exact arithmetic the      *)
(* digit string d encode returns reads back as a number 0.d with           *)
(* lower <= 0.d < upper, no shorter digit string denotes a number of       *)
(* [lower, upper), and G,G,B under {R: 0.4, G: 0.5, B: 0.1} yields "83".   *)
(***************************************************************************)
C2_Minimal ==
    (pc = "encoded" /\ ExactEncode)
    => /\ FractionParses(digits)
       /\ DLe(lower, ParseFraction(digits))
       /\ DLt(ParseFraction(digits), upper)
       /\ \A k \in 1..(Len(digits) - 1) : ~HasMultiple(lower, upper, k)
       /\ (symbol_list = <<"G", "G", "B">> /\ table_arg.given
           /\ table_arg.t = TableHandwritten) => digits = <<"8", "3">>

(***************************************************************************)
(* C3.  Decode termination: for an artifact encode returned for a valid    *)
(* table, with exact arithmetic, decode does not raise, its loop does not  *)
(* repeat a state for ever, and when it returns the last element of its    *)
(* output is the marker.                                                   *)
(***************************************************************************)
C3_DecodeTerminates ==
    (ValidTable /\ SufficientPrecision /\ EncodeReturned)
    => /\ pc # "raised"
       /\ ~Cycling
       /\ pc = "done" => (output # <<>> /\ output[Len(output)] = end_of_sequence)

\* encode has been called
Called == pc # "idle"

\* encode raised AssertionError before a narrowing step, returning nothing
Rejected ==
    /\ pc = "raised" /\ raised = "AssertionError"
    /\ pos = 0 /\ range_table = <<>> /\ digits = <<>>

MarkerSupplied == table_arg.given => end_of_sequence \in TableSymbols(table_arg.t)

\* | sum - 1 | as encode computes it, under the call's precision
Deviation(table, p) == DAbsSub(SumValues(table, Len(table), p), DOne, p)

\* | sum - 1 | of the table's values, computed without rounding
TrueDeviation(table) == XAbsSub(XSum(table, Len(table)), DOne)

(***************************************************************************)
(* C4, as amended.  encode raises AssertionError, before any narrowing     *)
(* step and without returning an artifact, when the marker is not in the   *)
(* list, when a supplied table lacks the marker, or when the sum of the    *)
(* probabilities computed under the call's precision deviates from 1 by    *)
(* 1e-5 or more; a supplied table that has the marker and whose sum so     *)
(* computed deviates by less than 1e-5 is not rejected.                    *)
(***************************************************************************)
C4_Validation ==
    /\ (Called /\ ~InList(end_of_sequence, symbol_list)) => Rejected
    /\ (Called /\ ~MarkerSupplied) => Rejected
    /\ (/\ Called /\ InList(end_of_sequence, symbol_list) /\ MarkerSupplied
        /\ DCmp(Deviation(probability_table, precision), Tolerance) >= 0) => Rejected
    /\ (/\ Called /\ InList(end_of_sequence, symbol_list) /\ MarkerSupplied
        /\ table_arg.given
        /\ DCmp(Deviation(table_arg.t, precision), Tolerance) < 0)
       => /\ ~(pc = "raised" /\ raised = "AssertionError")
          /\ range_table # <<>>

\* a supplied table whose sum deviates from 1 by exactly 1e-5 is rejected
C4_Witness ==
    /\ Rejected /\ InList(end_of_sequence, symbol_list) /\ MarkerSupplied
    /\ table_arg.given
    /\ DEq(TrueDeviation(table_arg.t), Tolerance)
    /\ DEq(Deviation(table_arg.t, precision), Tolerance)

(***************************************************************************)
(* C4, as claimed: the sum is rejected when it deviates from 1 by more     *)
(* than 1e-5, and a supplied table that has the marker and deviates by at  *)
(* most 1e-5 passes.                                                       *)
(***************************************************************************)
C4_AsClaimed ==
    /\ (Called /\ ~InList(end_of_sequence, symbol_list)) => Rejected
    /\ (Called /\ ~MarkerSupplied) => Rejected
    /\ (/\ Called /\ InList(end_of_sequence, symbol_list) /\ MarkerSupplied
        /\ table_arg.given
        /\ DCmp(TrueDeviation(table_arg.t), Tolerance) > 0) => Rejected
    /\ (/\ Called /\ InList(end_of_sequence, symbol_list) /\ MarkerSupplied
        /\ table_arg.given
        /\ DCmp(TrueDeviation(table_arg.t), Tolerance) <= 0)
       => ~(pc = "raised" /\ raised = "AssertionError")

\* a call has ended, returning or raising
Ended == pc \in {"encoded", "done", "raised"}

SameArguments(a, b) ==
    /\ a.kind = b.kind /\ a.list = b.list /\ a.eos = b.eos
    /\ a.precision = b.precision /\ a.given = b.given /\ a.table = b.table
    /\ a.digits = b.digits

SameResult(a, b) ==
    /\ a.raised = b.raised /\ a.out_digits = b.out_digits
    /\ a.out_table = b.out_table /\ a.out_list = b.out_list

(***************************************************************************)
(* C5.  Determinism across calls: whatever calls ran before or between,    *)
(* a call that ends with the arguments of an earlier call ends with that   *)
(* call's result: the same exception or the same digit string and table    *)
(* for encode, the same output for decode.                                 *)
(***************************************************************************)
C5_Deterministic ==
    \A n \in 1..Len(calls) :
        (Ended /\ SameArguments(calls[n], CallRecord)) => SameResult(calls[n], CallRecord)

\* an encode call returns the digit string of an earlier call that had the
\* same arguments
C5_Witness ==
    /\ pc = "encoded" /\ calls # <<>>
    /\ SameArguments(calls[1], CallRecord)
    /\ calls[1].out_digits = digits /\ Len(digits) > 1

(***************************************************************************)
(* C6.  Round trip of the Huffman codec: for a list with at least two      *)
(* distinct symbols encode does not raise, the tree ends as a single root  *)
(* that gives every symbol of the list a code word, no code word is a      *)
(* prefix of another, and decode returns the list.                         *)
(***************************************************************************)
IsPrefix(a, b) == Len(a) <= Len(b) /\ SubSeq(b, 1, Len(a)) = a

C6_HuffmanRoundTrip ==
    /\ (h_pc = "raised") => Len(frequency_table) < 2
    /\ (h_pc \in {"coded", "bits", "done"}) =>
          /\ Len(huffman_tree) = 1
          /\ {lookup_table[n].sym : n \in 1..Len(lookup_table)}
                = {h_symbol_list[n] : n \in 1..Len(h_symbol_list)}
          /\ \A n, m \in 1..Len(lookup_table) :
                n # m => ~IsPrefix(lookup_table[n].code, lookup_table[m].code)
    /\ (h_pc = "done") => h_output = h_symbol_list

\* decode has returned a list of four distinct symbols
C6_Witness ==
    /\ h_pc = "done"
    /\ Len(frequency_table) = 4
    /\ h_output = h_symbol_list

\* the sub-interval of the n-th symbol of the table
Sub(n) == range_table[probability_table[n].sym]

\* the interval the range table divides: [0, 1) after __init_range_table,
\* afterwards the sub-interval the consumed symbol had
ParentLow  == IF pos = 0 THEN DZero ELSE parent[1]
ParentHigh == IF pos = 0 THEN DOne ELSE parent[2]

Partition ==
    LET N == Len(probability_table)
    IN  /\ DEq(Sub(1)[1], ParentLow)
        /\ \A n \in 1..(N - 1) : DEq(Sub(n)[2], Sub(n + 1)[1])
        /\ \A n \in 1..N : DLe(Sub(n)[1], Sub(n)[2])
        /\ \A n \in 1..N :
              DEq(XAbsSub(Sub(n)[2], Sub(n)[1]),
                  XMul(probability_table[n].p, XAbsSub(ParentHigh, ParentLow)))
        /\ DEq(Sub(N)[2], ParentHigh)
        /\ pos > 0 => (DLe(DZero, lower) /\ DLt(lower, upper) /\ DLe(upper, DOne))

(***************************************************************************)
(* C7.  Partition invariant of the range table, for a valid supplied table *)
(* with exact arithmetic: after __init_range_table and after every         *)
(* narrowing step the sub-intervals in table order are contiguous and do   *)
(* not overlap, each has width probability x width of the parent interval, *)
(* together they cover exactly the parent interval, and the (lower, upper) *)
(* a step returns has 0 <= lower < upper <= 1.                             *)
(***************************************************************************)
C7_Partition ==
    (pc \in {"narrow", "minimize"} /\ ValidTable /\ ExactEncode) => Partition

\* the search of __minimize_entropy got past every granularity coarser than
\* 10^-jump because none had a multiple in [lower, upper), and each of
\* them was larger than upper - lower
PassedOver ==
    \A k \in 1..(jump - 1) :
        /\ ~HasMultiple(lower, upper, k)
        /\ DLt(XAbsSub(upper, lower), Jump(k))

\* __minimize_entropy raised
SearchRaised ==
    /\ pc = "raised" /\ raised = "InvalidOperation"
    /\ digits = <<>> /\ jump >= 1

(***************************************************************************)
(* C8, as amended.  For a final interval with lower < upper the search of  *)
(* __minimize_entropy does not raise, it passes over a granularity only    *)
(* when no multiple of it lies in [lower, upper), which happens only for   *)
(* granularities larger than upper - lower, and it returns at the first    *)
(* granularity that has a multiple in [lower, upper), with the least such  *)
(* multiple.                                                               *)
(***************************************************************************)
C8_SearchTerminates ==
    /\ (pc = "minimize" /\ DLt(lower, upper)) => (jump <= MaxJump /\ PassedOver)
    /\ (pc = "encoded" /\ DLt(lower, upper)) =>
          /\ PassedOver
          /\ HasMultiple(lower, upper, jump)
          /\ DEq(start, CeilTo(lower, jump))
    /\ SearchRaised => ~DLt(lower, upper)

\* the search returned at the third granularity or later
C8_Witness ==
    /\ pc = "encoded" /\ DLt(lower, upper)
    /\ jump >= 3
    /\ DEq(start, CeilTo(lower, jump))

(***************************************************************************)
(* C8, as claimed: for every final interval the search terminates, passing *)
(* over a granularity only when no multiple of it lies in [lower, upper)   *)
(* and it is larger than upper - lower.                                    *)
(***************************************************************************)
C8_AsClaimed ==
    /\ (pc = "minimize") => (jump <= MaxJump /\ PassedOver)
    /\ (pc = "encoded") => (PassedOver /\ HasMultiple(lower, upper, jump))
    /\ ~SearchRaised

\* the greatest table index whose cumulative lower bound is <= f
Owner(f) ==
    CHOOSE n \in 1..Len(range_lower) :
        /\ DLe(range_lower[n], f)
        /\ \A m \in (n + 1)..Len(range_lower) : ~DLe(range_lower[m], f)

\* one iteration of decode's loop, from the state before to the state after
StepAsSpecified ==
    /\ DLe(DZero, fraction) /\ DLt(fraction, DOne)
    /\ LET i == Owner(fraction)
           c == range_lower[i]
           p == probability_table[i].p
       IN  /\ symbol' = probability_table[i].sym
           /\ output' = Append(output, probability_table[i].sym)
           /\ DLt(fraction, XAdd(c, p))
           /\ pc' # "raised"
           /\ fraction' = DDiv(DSub(fraction, c, prec), p, prec)
           /\ ~fraction'.x => DEq(XMul(fraction', p), XAbsSub(fraction, c))

(***************************************************************************)
(* C9, as amended.  Decode step invariant, for an artifact encode produced *)
(* for a valid table, while no rounding in encode or decode has discarded  *)
(* a digit: at the start of an iteration 0 <= fraction < 1, the symbol     *)
(* emitted is the one at the greatest index i with c_i <= fraction, so     *)
(* c_i <= fraction < c_i + p_i, and the fraction becomes                   *)
(* (fraction - c_i) / p_i.                                                 *)
(***************************************************************************)
C9_DecodeStep ==
    [][(pc = "decode" /\ output' # output /\ ValidTable /\ ExactEncode /\ ExactDecode)
       => StepAsSpecified]_vars

\* decode is about to emit a symbol for a fraction that lies on the lower
\* bound of a sub-interval other than the first
C9_Witness ==
    /\ pc = "decode" /\ ValidTable /\ ExactEncode /\ ExactDecode
    /\ output # <<>>
    /\ \E n \in 2..Len(range_lower) : DEq(fraction, range_lower[n])

(***************************************************************************)
(* C9, as claimed: the same, for every artifact encode produced for a      *)
(* valid table, whatever the precision.                                    *)
(***************************************************************************)
C9_AsClaimed ==
    [][(pc = "decode" /\ output' # output /\ ValidTable) => StepAsSpecified]_vars

(***************************************************************************)
(* C10.  Decoding stops at the first marker: for a list that contains the  *)
(* marker, with the derived table or a valid supplied table and exact      *)
(* arithmetic, once encode has returned, decode returns the list up to and *)
(* including the first marker.                                             *)
(***************************************************************************)
C10_StopsAtFirstMarker ==
    (/\ InList(end_of_sequence, symbol_list)
     /\ (~table_arg.given \/ ValidTable)
     /\ SufficientPrecision /\ EncodeReturned /\ pc \in {"done", "raised"})
    => (pc = "done" /\ output = PrefixToMarker(symbol_list, end_of_sequence))

=============================================================================
